---- MODULE Spec2Model ----
(***************************************************************************)
(* Model of the vector database service in src/src/main.rs.                *)
(*                                                                         *)
(* The service keeps one registry, AppState.collections, a                 *)
(* Mutex<HashMap<String, Collection>>.  Four HTTP handlers run on a pool   *)
(* of worker threads; each one locks the mutex, does its whole work under  *)
(* the lock and drops the guard when it returns.  A handler that panics    *)
(* while it holds the guard poisons the mutex, and every later             *)
(* lock().unwrap() panics.                                                 *)
(*                                                                         *)
(* The index is the hnsw_rs crate.  It is modelled by what it does at the  *)
(* two call sites, insert and search: it keeps the inserted points, it     *)
(* compares vectors with the distance functor of the collection (which     *)
(* panics on vectors of unequal length), and on graphs of a few points     *)
(* its beam search visits every point.  The order in which points at equal *)
(* distance come back depends on the graph, whose shape depends on the     *)
(* random level drawn at insertion: the position a point takes in `points` *)
(* stands for that draw.                                                   *)
(*                                                                         *)
(* f32 distances are fixed-point numbers in tenths (1.0 is 10).            *)
(*                                                                         *)
(* A worker goes idle -> lock -> cs -> idle.  A handler reads its request  *)
(* only under the lock, so the request is drawn in the step that runs the  *)
(* handler body; the body is one step, nothing else can run inside it.     *)
(* The route of a request (which handler it is for) is known from its      *)
(* arrival; Spec and SpecConc leave it open until the body runs, as        *)
(* nothing before the body depends on it, and SpecRouted records it.       *)
(* `last`, `dims` and `acked` are history: the last response, the dim each *)
(* create request gave, and the ids of the upserts answered 200.           *)
(***************************************************************************)
EXTENDS Integers, Sequences, FiniteSets, TLC

\* ------------------------------------------------------------------ bounds

\* Longest ids / vectors / payloads list of an upsert body.
MaxBatch == 2

\* Upserts are accepted by the model while the registry holds at most this
\* many records in all (the code has no such limit: Vec::push never refuses).
MaxRecords == 2

\* ------------------------------------------------------------------ inputs

Workers == {1, 2}

Names == {"a", "b"}

Ids == {1, 2}

Distances == {"l2", "cosine", "dot"}

Dims == {2}

\* Vectors of one and of two components.
Vectors == {<<1>>, <<1, 0>>, <<0, 1>>}

Payloads == {"p"}

TopKs == {1, 2}

SeqsUpTo(S, n) == UNION {[1..k -> S] : k \in 0..n}

\* ------------------------------------------------------------------ helpers

None == [tag |-> "None"]

Some(x) == [tag |-> "Some", val |-> x]

Min(a, b) == IF a <= b THEN a ELSE b

Max(a, b) == IF a >= b THEN a ELSE b

\* Integer square root (floor).
ISqrt(n) == CHOOSE r \in 0..n : r * r <= n /\ (r + 1) * (r + 1) > n

RECURSIVE SumOver(_, _)
SumOver(f, k) == IF k = 0 THEN 0 ELSE f[k] + SumOver(f, k - 1)

Dot(a, b) == SumOver([i \in 1..Len(a) |-> a[i] * b[i]], Len(a))

SumSq(a, b) == SumOver([i \in 1..Len(a) |-> (a[i] - b[i]) * (a[i] - b[i])], Len(a))

\* Sequence s with x put at position p (1..Len(s)+1).
InsertAt(s, p, x) == SubSeq(s, 1, p - 1) \o <<x>> \o SubSeq(s, p, Len(s))

Range(s) == {s[i] : i \in DOMAIN s}

Perms(S) == {f \in [1..Cardinality(S) -> S] : \A x \in S : \E i \in DOMAIN f : f[i] = x}


\* ------------------------------------------------------------------ index

\* efConstruction as passed to Hnsw::new.
EfConstruction == 16

\* DistL2 of hnsw_rs: the Euclidean norm of the difference (rooted), in
\* tenths.  Panics on vectors of unequal length.
DistL2(a, b) == ISqrt(100 * SumSq(a, b))

\* DistCosine of hnsw_rs: 1 - a.b / (|a| |b|), in tenths, clamped at 0, and 0
\* when one of the vectors has norm 0.  Panics on vectors of unequal length.
DistCosine(a, b) ==
    IF Dot(a, a) > 0 /\ Dot(b, b) > 0
    THEN Max(0, 10 - (100 * Dot(a, b)) \div ISqrt(100 * Dot(a, a) * Dot(b, b)))
    ELSE 0

Eval(dist, a, b) == IF dist = "l2" THEN DistL2(a, b) ELSE DistCosine(a, b)

\* Hnsw::new(max_nb_connection, 16, dim, max_elements, dist): an empty graph.
Hnsw_new(max_nb_connection, ef_construction, dim, max_elements, dist) ==
    [max_nb_connection |-> max_nb_connection,
     ef_construction |-> ef_construction,
     dim |-> dim,
     max_elements |-> max_elements,
     dist |-> dist,
     points |-> <<>>]

\* A distance evaluation between v and a stored point panics when the
\* lengths differ; insert and search evaluate at least one as soon as the
\* graph has a point.
LenClash(hnsw, v) == \E i \in DOMAIN hnsw.points : Len(hnsw.points[i].v) # Len(v)

\* hnsw.insert((v, d_id)): the graphs the insertion can leave.  No check of
\* the length against dim, none of the count against max_elements.
Hnsw_insert(hnsw, v, d_id) ==
    {[hnsw EXCEPT !.points = InsertAt(hnsw.points, p, [v |-> v, d_id |-> d_id])] :
        p \in 1..(Len(hnsw.points) + 1)}

\* Position of point i of the graph in the answer to query q: points in
\* ascending distance, points at equal distance in the graph's order.
Rank(hnsw, q, i) ==
    LET d(j) == Eval(hnsw.dist, q, hnsw.points[j].v)
    IN  1 + Cardinality({j \in DOMAIN hnsw.points :
                            d(j) < d(i) \/ (d(j) = d(i) /\ j < i)})

\* A search that does not cut its candidates down to knbn.
Hnsw_search_uncut(hnsw, q, knbn, ef) ==
    LET n      == Len(hnsw.points)
        at(r)  == CHOOSE i \in 1..n : Rank(hnsw, q, i) = r
    IN  [r \in 1..n |->
            [d_id |-> hnsw.points[at(r)].d_id,
             distance |-> Eval(hnsw.dist, q, hnsw.points[at(r)].v)]]

\* hnsw.search(q, knbn, ef): the knbn nearest points, ascending, as
\* Neighbour {d_id, distance}.
Hnsw_search(hnsw, q, knbn, ef) ==
    LET n      == Len(hnsw.points)
        last   == Min(Min(knbn, Max(ef, knbn)), n)
        at(r)  == CHOOSE i \in 1..n : Rank(hnsw, q, i) = r
    IN  [r \in 1..last |->
            [d_id |-> hnsw.points[at(r)].d_id,
             distance |-> Eval(hnsw.dist, q, hnsw.points[at(r)].v)]]


\* ------------------------------------------------------------------ collection

HnswParamsSet ==
    {[max_nb_connection |-> 2, ef_search |-> 1, max_elements |-> m] : m \in {1}}

CollectionConfigs ==
    {[distance |-> d, hnsw |-> h] : d \in Distances, h \in HnswParamsSet}

VectorRecord(id, vector, payload) == [id |-> id, vector |-> vector, payload |-> payload]

\* Collection::new(config, dim).
Collection_new(config, dim) ==
    [config |-> config,
     records |-> <<>>,
     hnsw_l2 |->
        IF config.distance = "l2"
        THEN Some(Hnsw_new(config.hnsw.max_nb_connection, EfConstruction, dim,
                           config.hnsw.max_elements, "l2"))
        ELSE None,
     hnsw_cosine |->
        IF config.distance = "cosine"
        THEN Some(Hnsw_new(config.hnsw.max_nb_connection, EfConstruction, dim,
                           config.hnsw.max_elements, "cosine"))
        ELSE None]

\* `if let Some(hnsw) = &self.hnsw_x { hnsw.insert(..) }`: the values the
\* field can have afterwards.
InsertIfSome(opt, v, d_id) ==
    IF opt.tag = "Some" THEN {Some(h) : h \in Hnsw_insert(opt.val, v, d_id)} ELSE {opt}

ClashIfSome(opt, v) == opt.tag = "Some" /\ LenClash(opt.val, v)

\* The loop of Collection::upsert from iteration i on (1-based): the set of
\* [coll, panicked] it can end with.  vectors[i] and payloads[i] panic out of
\* bounds, the insert panics in the distance functor; what the earlier
\* iterations did stays done.
RECURSIVE UpsertFrom(_, _, _, _, _)
UpsertFrom(coll, ids, vectors, payloads, i) ==
    IF i > Len(ids)
    THEN {[coll |-> coll, panicked |-> FALSE]}
    ELSE IF i > Len(vectors) \/ i > Len(payloads)
    THEN {[coll |-> coll, panicked |-> TRUE]}
    ELSE IF ClashIfSome(coll.hnsw_l2, vectors[i])
    THEN {[coll |-> coll, panicked |-> TRUE]}
    ELSE UNION {
        IF ClashIfSome(coll.hnsw_cosine, vectors[i])
        THEN {[coll |-> [coll EXCEPT !.hnsw_l2 = l2], panicked |-> TRUE]}
        ELSE UNION {
            UpsertFrom([coll EXCEPT
                            !.hnsw_l2 = l2,
                            !.hnsw_cosine = cos,
                            !.records = Append(@, VectorRecord(ids[i], vectors[i], payloads[i]))],
                       ids, vectors, payloads, i + 1) :
            cos \in InsertIfSome(coll.hnsw_cosine, vectors[i], ids[i])} :
        l2 \in InsertIfSome(coll.hnsw_l2, vectors[i], ids[i])}

\* Collection::upsert(ids, vectors, payloads).
Collection_upsert(coll, ids, vectors, payloads) == UpsertFrom(coll, ids, vectors, payloads, 1)

\* res.into_iter().map(|n| (n.d_id as u64, n.distance)).collect()
Pairs(res) == [r \in DOMAIN res |-> <<res[r].d_id, res[r].distance>>]

\* Collection::search(query, top_k): [panicked, res].
Collection_search(coll, query, top_k) ==
    IF coll.hnsw_l2.tag = "Some"
    THEN IF LenClash(coll.hnsw_l2.val, query)
         THEN [panicked |-> TRUE, res |-> <<>>]
         ELSE [panicked |-> FALSE,
               res |-> Pairs(Hnsw_search(coll.hnsw_l2.val, query, top_k,
                                         coll.config.hnsw.ef_search))]
    ELSE IF coll.hnsw_cosine.tag = "Some"
    THEN IF LenClash(coll.hnsw_cosine.val, query)
         THEN [panicked |-> TRUE, res |-> <<>>]
         ELSE [panicked |-> FALSE,
               res |-> Pairs(Hnsw_search(coll.hnsw_cosine.val, query, top_k,
                                         coll.config.hnsw.ef_search))]
    ELSE [panicked |-> FALSE, res |-> <<>>]

\* ------------------------------------------------------------------ state

VARIABLES
    collections,    \* AppState.collections: name -> Collection (the HashMap)
    holder,         \* worker that holds the MutexGuard, 0 when the mutex is free
    poisoned,       \* the mutex is poisoned: a holder panicked
    pc,             \* per worker: "idle", "lock" (at lock()), "cs" (guard held)
    op,             \* per worker: the handler its request was routed to
    last,           \* the request that completed last, and its response
                    \* (for an upsert answered 200, body is the ids it stored)
    dims,           \* history: name -> the dim its create request gave
    acked           \* history: name -> worker -> ids of its upserts answered 200

vars == <<collections, holder, poisoned, pc, op, last, dims, acked>>

Ops == {"create", "upsert", "search", "list"}

\* op[w] of a worker with no request, and of a request whose route is left
\* open until its handler body runs.
NoOp == "none"
AnyOp == "any"

Response(o, name, status, body) ==
    [op |-> o, name |-> name, status |-> status, body |-> body]

\* AppState { collections: Mutex::new(HashMap::new()) }
Init ==
    /\ collections = <<>>
    /\ holder = 0
    /\ poisoned = FALSE
    /\ pc = [w \in Workers |-> "idle"]
    /\ op = [w \in Workers |-> NoOp]
    /\ last = Response("none", "", "none", <<>>)
    /\ dims = <<>>
    /\ acked = [n \in Names |-> [w \in Workers |-> {}]]

Registered == DOMAIN collections

\* An insert that clears the map first.
MapInsert_alone(map, name, coll) ==
    [n \in {name} |-> coll]

\* collections.insert(name, coll)
MapInsert(map, name, coll) ==
    [n \in DOMAIN map \cup {name} |-> IF n = name THEN coll ELSE map[n]]

\* The router hands a request to a worker, which starts the handler.
Request(w, o) ==
    /\ pc[w] = "idle"
    /\ pc' = [pc EXCEPT ![w] = "lock"]
    /\ op' = [op EXCEPT ![w] = o]
    /\ UNCHANGED <<collections, holder, poisoned, last, dims, acked>>

\* Worker w's request is one for handler o.
Routed(w, o) == op[w] \in {AnyOp, o}

\* A reader/writer lock in place of the mutex: a search gets in next to a
\* search that is inside.
Lock_shared(w) ==
    /\ pc[w] = "lock"
    /\ \/ holder = 0
       \/ holder # 0 /\ op[w] = "search" /\ op[holder] = "search"
    /\ ~poisoned
    /\ holder' = w
    /\ pc' = [pc EXCEPT ![w] = "cs"]
    /\ UNCHANGED <<collections, poisoned, op, last, dims, acked>>

\* A lock() that does not wait for the holder.
Lock_unguarded(w) ==
    /\ pc[w] = "lock"
    /\ ~poisoned
    /\ holder' = w
    /\ pc' = [pc EXCEPT ![w] = "cs"]
    /\ UNCHANGED <<collections, poisoned, op, last, dims, acked>>

\* data.collections.lock().unwrap() on a healthy mutex.
Lock(w) ==
    /\ pc[w] = "lock"
    /\ holder = 0
    /\ ~poisoned
    /\ holder' = w
    /\ pc' = [pc EXCEPT ![w] = "cs"]
    /\ UNCHANGED <<collections, poisoned, op, last, dims, acked>>

\* data.collections.lock().unwrap() on a poisoned mutex: unwrap panics, the
\* handler produces no response of its own.
LockPoisoned(w, o, name) ==
    /\ pc[w] = "lock"
    /\ holder = 0
    /\ poisoned
    /\ Routed(w, o)
    /\ pc' = [pc EXCEPT ![w] = "idle"]
    /\ op' = [op EXCEPT ![w] = NoOp]
    /\ last' = Response(o, IF o = "list" THEN "" ELSE name, "Panic", <<>>)
    /\ UNCHANGED <<collections, holder, poisoned, dims, acked>>

\* A handler that panics keeps the guard.
Leave_guardKept(w, o, name, status, body, panicked) ==
    /\ holder' = IF panicked THEN holder ELSE 0
    /\ poisoned' = (poisoned \/ panicked)
    /\ pc' = [pc EXCEPT ![w] = "idle"]
    /\ op' = [op EXCEPT ![w] = NoOp]
    /\ last' = Response(o, name, status, body)

\* The handler returns (or unwinds): the guard is dropped.
Leave(w, o, name, status, body, panicked) ==
    /\ holder' = 0
    /\ poisoned' = (poisoned \/ panicked)
    /\ pc' = [pc EXCEPT ![w] = "idle"]
    /\ op' = [op EXCEPT ![w] = NoOp]
    /\ last' = Response(o, name, status, body)

InCs(w) == pc[w] = "cs" /\ holder = w

\* create_collection, after the lock.
create_collection(w, body) ==
    /\ InCs(w)
    /\ Routed(w, "create")
    /\ collections' = MapInsert(collections, body.name, Collection_new(body.config, body.dim))
    /\ dims' = MapInsert(dims, body.name, body.dim)
    /\ acked' = [acked EXCEPT ![body.name] = [x \in Workers |-> {}]]
    /\ Leave(w, "create", body.name, "Ok", <<>>, FALSE)

\* Records held by the registry, all collections together.
RECURSIVE NbRecordsOf(_)
NbRecordsOf(S) ==
    IF S = {} THEN 0
    ELSE LET n == CHOOSE x \in S : TRUE
         IN  Len(collections[n].records) + NbRecordsOf(S \ {n})

NbRecords == NbRecordsOf(Registered)

\* upsert_vectors, after the lock.
upsert_vectors(w, name, ids, vectors, payloads) ==
    /\ InCs(w)
    /\ Routed(w, "upsert")
    /\ UNCHANGED dims
    /\ IF name \in Registered
       THEN /\ NbRecords + Len(ids) <= MaxRecords
            /\ \E out \in Collection_upsert(collections[name], ids, vectors, payloads) :
                /\ collections' = [collections EXCEPT ![name] = out.coll]
                /\ acked' = IF out.panicked THEN acked
                            ELSE [acked EXCEPT ![name][w] = @ \cup Range(ids)]
                /\ Leave(w, "upsert", name, IF out.panicked THEN "Panic" ELSE "Ok",
                         IF out.panicked THEN <<>> ELSE ids, out.panicked)
       ELSE /\ UNCHANGED <<collections, acked>>
            /\ Leave(w, "upsert", name, "NotFound", <<>>, FALSE)

\* search_vectors, after the lock.
search_vectors(w, name, query, top_k) ==
    /\ InCs(w)
    /\ Routed(w, "search")
    /\ UNCHANGED <<collections, dims, acked>>
    /\ IF name \in Registered
       THEN LET r == Collection_search(collections[name], query, top_k)
            IN  Leave(w, "search", name, IF r.panicked THEN "Panic" ELSE "Ok",
                      r.res, r.panicked)
       ELSE Leave(w, "search", name, "NotFound", <<>>, FALSE)

\* list_collections, after the lock: the keys in the map's iteration order.
list_collections(w) ==
    /\ InCs(w)
    /\ Routed(w, "list")
    /\ UNCHANGED <<collections, dims, acked>>
    /\ \E names \in Perms(Registered) : Leave(w, "list", "", "Ok", names, FALSE)

CreateBodies(Ds) ==
    {[name |-> n, config |-> c, dim |-> d] :
        n \in Names, c \in {x \in CollectionConfigs : x.distance \in Ds}, d \in Dims}

\* The request data of a specification: the names, distance strings, vectors
\* and top_k its requests carry, and the longest list of an upsert body.
AllInputs ==
    [names |-> Names, distances |-> Distances, vectors |-> Vectors,
     topks |-> TopKs, batch |-> MaxBatch]

\* Worker w runs the handler of its request to the end, or panics at lock(),
\* for a request with data of In.
Serve(w, In) ==
    \/ \E o \in Ops, n \in In.names : LockPoisoned(w, o, n)
    \/ \E body \in {b \in CreateBodies(In.distances) : b.name \in In.names} :
            create_collection(w, body)
    \/ \E n \in In.names,
          ids \in SeqsUpTo(Ids, In.batch),
          vectors \in SeqsUpTo(In.vectors, In.batch),
          payloads \in SeqsUpTo(Payloads, In.batch) :
            upsert_vectors(w, n, ids, vectors, payloads)
    \/ \E n \in In.names, q \in In.vectors, k \in In.topks : search_vectors(w, n, q, k)
    \/ list_collections(w)

\* One step of the service with worker threads W, for requests routed as Os
\* says, with data of In.
Step(W, Os, In) ==
    \/ \E w \in W, o \in Os : Request(w, o)
    \/ \E w \in W : Lock(w)
    \/ \E w \in W : Serve(w, In)

\* Requests served one at a time, over all the request data.
Next == Step({1}, {AnyOp}, AllInputs)

Spec == Init /\ [][Next]_vars

\* Two worker threads serving requests at once, over less request data.
ConcInputs ==
    [AllInputs EXCEPT !.distances = {"l2", "dot"}, !.vectors = {<<1>>, <<1, 1>>}]

NextConc == Step(Workers, {AnyOp}, ConcInputs)

SpecConc == Init /\ [][NextConc]_vars

\* Two worker threads, every request routed to its handler when it arrives,
\* over "l2" collections and vectors of two components.
RoutedInputs == [AllInputs EXCEPT !.distances = {"l2"}, !.vectors = {<<1, 1>>}]

NextRouted == Step(Workers, Ops, RoutedInputs)

SpecRouted == Init /\ [][NextRouted]_vars

\* The same for one collection name, top_k = 1 and upsert lists of at most one
\* element,
\* under fair scheduling of the worker threads: a thread that can run its
\* handler, or panic at lock(), does so, and a thread that waits at lock()
\* gets the mutex if it is free again and again.
FairInputs == [RoutedInputs EXCEPT !.names = {"a"}, !.topks = {1}, !.batch = 1]

NextFair == Step(Workers, Ops, FairInputs)

Fairness ==
    \A w \in Workers :
        /\ WF_vars(Serve(w, FairInputs))
        /\ SF_vars(Lock(w))

SpecFair == Init /\ [][NextFair]_vars /\ Fairness


\* ------------------------------------------------------------------ claims

AllBatches == SeqsUpTo(Ids, MaxBatch) \X SeqsUpTo(Vectors, MaxBatch) \X SeqsUpTo(Payloads, MaxBatch)

\* Worker w's request is answered (or its handler panics) in this step.
Completes(w) == pc[w] # "idle" /\ pc'[w] = "idle"

RecordsOf(n) == collections[n].records

\* Every record of collection n has the length its create request gave.
WellFormed(n) == \A i \in DOMAIN RecordsOf(n) : Len(RecordsOf(n)[i].vector) = dims[n]

Queries(n) == {q \in Vectors : Len(q) = dims[n]}

ResultIds(res) == {res[i][1] : i \in DOMAIN res}

\* C1: a create for a name that is already registered, with records
\* upserted into it, is refused with AlreadyExists and leaves the registered
\* collection, records included, as it was.
C1_CreateExistingRefused ==
    [][\A w \in Workers, body \in CreateBodies(Distances) :
        (/\ create_collection(w, body)
         /\ body.name \in Registered
         /\ RecordsOf(body.name) # <<>>)
            => (last'.status = "AlreadyExists"
                /\ collections'[body.name] = collections[body.name])]_vars

\* C2: an upsert whose ids, vectors and payloads differ in length is refused
\* with ArityMismatch and leaves record store and index of the collection as
\* they were, no prefix of the batch appended (stated for the batches that
\* have a prefix to append: a first id with its vector and payload).
C2_UnequalBatchRefused ==
    [][\A w \in Workers, n \in Names, b \in AllBatches :
        (/\ upsert_vectors(w, n, b[1], b[2], b[3])
         /\ n \in Registered
         /\ ~(Len(b[1]) = Len(b[2]) /\ Len(b[2]) = Len(b[3]))
         /\ Len(b[1]) >= 1 /\ Len(b[2]) >= 1 /\ Len(b[3]) >= 1)
            => (last'.status = "ArityMismatch" /\ collections' = collections)]_vars

\* C3: an upsert with a vector whose length is not the collection's dim is
\* refused with DimensionMismatch and stores nothing, so every stored record
\* always has dim components.
C3_WrongLengthRefused ==
    /\ [](\A n \in Registered : WellFormed(n))
    /\ [][\A w \in Workers, n \in Names, b \in AllBatches :
            (/\ upsert_vectors(w, n, b[1], b[2], b[3])
             /\ n \in Registered
             /\ Len(b[1]) = Len(b[2]) /\ Len(b[2]) = Len(b[3])
             /\ \E i \in DOMAIN b[2] : Len(b[2][i]) # dims[n])
                => (/\ last'.status = "DimensionMismatch"
                    /\ Len(collections'[n].records) = Len(collections[n].records))]_vars

\* C4: once upserts of two workers with disjoint ids into one collection
\* have both been answered 200, the collection holds a record for every id
\* of both, and a search with top_k at least the record count returns ids
\* of both.
C4_NoLostUpdate ==
    \A n \in Registered :
        (/\ acked[n][1] # {}
         /\ acked[n][2] # {}
         /\ acked[n][1] \cap acked[n][2] = {}
         /\ WellFormed(n))
            => /\ \A id \in acked[n][1] \cup acked[n][2] :
                    \E i \in DOMAIN RecordsOf(n) : RecordsOf(n)[i].id = id
               /\ \A q \in Queries(n), k \in TopKs :
                    k >= Len(RecordsOf(n)) =>
                        LET r == Collection_search(collections[n], q, k)
                        IN  /\ ~r.panicked
                            /\ ResultIds(r.res) \cap acked[n][1] # {}
                            /\ ResultIds(r.res) \cap acked[n][2] # {}

\* C5: a collection created with max_elements = M never holds more than M
\* records (the insertion of record M+1 is refused).
C5_CapacityRespected ==
    \A n \in Registered :
        WellFormed(n) => Len(RecordsOf(n)) <= collections[n].config.hnsw.max_elements

\* C6: an upsert or search for a name that is not registered is answered
\* NotFound and changes no collection.
C6_UnknownNameNotFound ==
    [][\A w \in Workers :
        (/\ Completes(w)
         /\ last'.op \in {"upsert", "search"}
         /\ last'.name \notin Registered)
            => (last'.status = "NotFound" /\ collections' = collections)]_vars

\* C7: every registered collection has exactly one index, of the variant its
\* config names (a create with another distance string registers nothing).
C7_OneIndexPerCollection ==
    \A n \in Registered :
        \/ /\ collections[n].config.distance = "l2"
           /\ collections[n].hnsw_l2.tag = "Some"
           /\ collections[n].hnsw_cosine.tag = "None"
        \/ /\ collections[n].config.distance = "cosine"
           /\ collections[n].hnsw_cosine.tag = "Some"
           /\ collections[n].hnsw_l2.tag = "None"

\* C8: after an upsert of one record (id, v), v of the collection's dim, a
\* search for v with any top_k >= 1 returns id first, at distance 0.
C8_UpsertThenSearchFindsIt ==
    [][\A w \in Workers, n \in Names, id \in Ids, v \in Vectors, p \in Payloads :
        (/\ upsert_vectors(w, n, <<id>>, <<v>>, <<p>>)
         /\ n \in Registered
         /\ WellFormed(n)
         /\ Len(v) = dims[n])
            => \A k \in TopKs :
                LET r == Collection_search(collections'[n], v, k)
                IN  ~r.panicked /\ r.res # <<>> /\ r.res[1] = <<id, 0>>]_vars

NonDecreasing(res) == \A i, j \in DOMAIN res : i < j => res[i][2] <= res[j][2]

Distinct(f) == \A i, j \in DOMAIN f : i # j => f[i] # f[j]

\* C9: a collection holding m records with distinct ids and distinct vectors
\* answers a search with top_k = m with exactly m pairs, each id once, in
\* non-decreasing distance.
C9_RoundTrip ==
    \A n \in Registered :
        LET recs == RecordsOf(n)
            m == Len(recs)
        IN  (/\ m \in TopKs
             /\ WellFormed(n)
             /\ Distinct([i \in DOMAIN recs |-> recs[i].id])
             /\ Distinct([i \in DOMAIN recs |-> recs[i].vector]))
                => \A q \in Queries(n) :
                    LET r == Collection_search(collections[n], q, m)
                    IN  /\ ~r.panicked
                        /\ Len(r.res) = m
                        /\ ResultIds(r.res) = {recs[i].id : i \in DOMAIN recs}
                        /\ NonDecreasing(r.res)

\* Squared Euclidean distance, in tenths.
SquaredL2(a, b) == 10 * SumSq(a, b)

\* The answer C10 describes: the top_k records by squared distance, then id.
ExpectedL2(recs, q, top_k) ==
    LET key(i) == <<SquaredL2(q, recs[i].vector), recs[i].id, i>>
        before(a, b) == \/ a[1] < b[1]
                        \/ a[1] = b[1] /\ a[2] < b[2]
                        \/ a[1] = b[1] /\ a[2] = b[2] /\ a[3] < b[3]
        rank(i) == 1 + Cardinality({j \in DOMAIN recs : before(key(j), key(i))})
        at(r) == CHOOSE i \in DOMAIN recs : rank(i) = r
    IN  [r \in 1..Min(top_k, Len(recs)) |->
            <<recs[at(r)].id, SquaredL2(q, recs[at(r)].vector)>>]

\* C10: an "l2" collection answers a search with its top_k records nearest
\* to the query by squared Euclidean distance, ascending, ties by smaller id,
\* each with its squared distance.
C10_L2SquaredRanking ==
    \A n \in Registered :
        (collections[n].config.distance = "l2" /\ WellFormed(n))
            => \A q \in Queries(n), k \in TopKs :
                LET r == Collection_search(collections[n], q, k)
                IN  ~r.panicked /\ r.res = ExpectedL2(RecordsOf(n), q, k)

\* What a search request (name, query, top_k) is answered, status and body,
\* by a service whose mutex is poisoned as p says and whose registry is colls.
SearchOutcome(p, colls, name, query, top_k) ==
    IF p THEN <<"Panic", <<>>>>
    ELSE IF name \notin DOMAIN colls THEN <<"NotFound", <<>>>>
    ELSE LET r == Collection_search(colls[name], query, top_k)
         IN  <<IF r.panicked THEN "Panic" ELSE "Ok", r.res>>

\* No create and no upsert completes in this step.
NoWrite == \A w \in Workers : Completes(w) => last'.op \notin {"create", "upsert"}

\* C11: a search changes no collection, and over steps in which no create
\* and no upsert completes (searches and list calls of any worker) the answer
\* to every search (collection, query, top_k) stays what it was (stated for
\* registries whose records all have their collection's dim).
C11_SearchReadOnlyDeterministic ==
    [][/\ (\E w \in Workers : Completes(w) /\ last'.op = "search")
            => collections' = collections
       /\ (NoWrite /\ \A m \in Registered : WellFormed(m)) =>
            \A n \in Names, q \in Vectors, k \in TopKs :
                SearchOutcome(poisoned', collections', n, q, k)
                    = SearchOutcome(poisoned, collections, n, q, k)]_vars

\* Names for which a create has completed.
Created == DOMAIN dims

\* C12: a list call is answered with exactly the names for which a create
\* has completed, each once, and that set of names only grows.
C12_ListReturnsCreatedNames ==
    [][/\ \A w \in Workers :
            (Completes(w) /\ last'.op = "list")
                => /\ last'.status = "Ok"
                   /\ Range(last'.body) = Created
                   /\ Len(last'.body) = Cardinality(Created)
       /\ Created \subseteq Created'
       /\ Registered \subseteq Registered']_vars

\* C13: a search on a registered collection that holds no record is answered
\* 200 with an empty result, for every query and top_k.
C13_EmptyCollectionSearch ==
    [][\A w \in Workers :
        (/\ Completes(w)
         /\ last'.op = "search"
         /\ last'.name \in Registered
         /\ RecordsOf(last'.name) = <<>>)
            => (last'.status = "Ok" /\ last'.body = <<>>)]_vars

\* C14: a search takes a shared lock and an upsert an exclusive lock of its
\* collection: a search that has arrived at lock() gets in while another
\* search is inside its critical section, and while an upsert is (the
\* collection of either request is read under the lock only, so the upsert
\* stands for one on another collection as well).
C14_SearchesShareTheLock ==
    \A v, w \in Workers :
        (/\ v # w
         /\ pc[v] = "cs" /\ op[v] \in {"search", "upsert"}
         /\ pc[w] = "lock" /\ op[w] = "search"
         /\ ~poisoned)
            => ENABLED Lock(w)

\* C14 amended: every handler takes the one registry mutex, exclusively.
\* While a handler of any kind is inside its critical section, every other
\* request, a search included and whatever its collection, waits at lock().
C14_OneExclusiveLock ==
    \A v, w \in Workers :
        (v # w /\ pc[v] = "cs" /\ pc[w] = "lock") => ~ENABLED Lock(w)

\* A search waits at lock() while another search is inside.
C14_SearchWaitsForSearch ==
    /\ pc[1] = "cs" /\ op[1] = "search"
    /\ pc[2] = "lock" /\ op[2] = "search"
    /\ ~poisoned

IdsOf(recs) == [i \in DOMAIN recs |-> recs[i].id]

Occurrences(f, x) == Cardinality({i \in DOMAIN f : f[i] = x})

\* The external ids of the nodes of a collection's index, none without index.
IndexIds(coll) ==
    LET ids(hnsw) == [i \in DOMAIN hnsw.points |-> hnsw.points[i].d_id]
    IN  IF coll.hnsw_l2.tag = "Some" THEN ids(coll.hnsw_l2.val)
        ELSE IF coll.hnsw_cosine.tag = "Some" THEN ids(coll.hnsw_cosine.val)
        ELSE <<>>

\* C15: an upsert of n ids that is answered 200 leaves the records there
\* were in place and appends n, so that every id has as many more records,
\* and as many more index nodes, as the batch has occurrences of it, whether
\* the id was present before or not.
C15_UpsertAppends ==
    [][\A w \in Workers :
        (Completes(w) /\ last'.op = "upsert" /\ last'.status = "Ok")
            => LET n == last'.name
                   ids == last'.body
                   old == collections[n]
                   new == collections'[n]
               IN  /\ Len(new.records) = Len(old.records) + Len(ids)
                   /\ SubSeq(new.records, 1, Len(old.records)) = old.records
                   /\ \A id \in Ids :
                        /\ Occurrences(IdsOf(new.records), id)
                            = Occurrences(IdsOf(old.records), id) + Occurrences(ids, id)
                        /\ Occurrences(IndexIds(new), id)
                            = Occurrences(IndexIds(old), id) + Occurrences(ids, id)]_vars

\* C16: every id a search on a collection returns is the id of a record of
\* that collection, and the results are at most top_k and at most as many as
\* the collection has records; so for every search answered 200, whose body
\* is one of these results.
C16_ResultsAreOwnRecords ==
    /\ [](\A n \in Registered, q \in Vectors, k \in TopKs :
            LET r == Collection_search(collections[n], q, k)
            IN  /\ ResultIds(r.res) \subseteq Range(IdsOf(RecordsOf(n)))
                /\ Len(r.res) <= k
                /\ Len(r.res) <= Len(RecordsOf(n)))
    /\ [][\A w \in Workers :
            (Completes(w) /\ last'.op = "search" /\ last'.status = "Ok")
                => /\ \E q \in Vectors, k \in TopKs :
                        last'.body = Collection_search(collections[last'.name], q, k).res
                   /\ ResultIds(last'.body) \subseteq Range(IdsOf(RecordsOf(last'.name)))
                   /\ Len(last'.body) <= Len(RecordsOf(last'.name))]_vars

\* A search with top_k = 1 was answered from a collection of two records.
C16_OneOfTwoReturned ==
    /\ last.op = "search" /\ last.status = "Ok"
    /\ Len(last.body) = 1
    /\ last.name \in Registered
    /\ Len(RecordsOf(last.name)) = 2

C18_OneInCriticalSection ==
    /\ [](\A v, w \in Workers :
            /\ (pc[v] = "cs" /\ pc[w] = "cs") => v = w
            /\ pc[w] = "cs" => holder = w)
    /\ [][\A v, w \in Workers :
            (/\ Completes(w)
             /\ pc[w] = "cs"
             /\ op[w] \in {"search", "list"}
             /\ v # w)
                => ~(pc[v] = "cs" /\ op[v] = "upsert")]_vars

\* An upsert is inside, on a registry that holds records, and a search waits.
C18_SearchWaitsForUpsert ==
    /\ pc[1] = "cs" /\ op[1] = "upsert"
    /\ pc[2] = "lock" /\ op[2] = "search"
    /\ NbRecords > 0

\* C19: after an upsert has failed, a later create, upsert, search or list
\* request gets the lock and is served by its handler, not ended at lock()
\* (stated for the request that completes next after the failed upsert).
C19_ServiceSurvivesFailure ==
    [][\A w \in Workers :
        (Completes(w) /\ last.op = "upsert" /\ last.status = "Panic")
            => (pc[w] = "cs" /\ last'.status # "Panic")]_vars

\* C20: an upsert into a collection leaves every other collection, records,
\* index and config, as it was, and so does the create of a name that was
\* not registered.
C20_CollectionsIsolated ==
    [][\A w \in Workers :
        (/\ Completes(w)
         /\ \/ last'.op = "upsert"
            \/ last'.op = "create" /\ last'.name \notin Registered)
            => \A m \in Registered \ {last'.name} :
                m \in Registered' /\ collections'[m] = collections[m]]_vars

\* An upsert into one collection was answered 200 while the other one holds
\* a record.
C20_UpsertBesideRecords ==
    /\ last.op = "upsert" /\ last.status = "Ok" /\ last.body # <<>>
    /\ \E m \in Registered \ {last.name} : RecordsOf(m) # <<>>

\* ------------------------------------------------------------------ scope
\* What TLC finds to hold of C4, C6, C9, C11, C12, C13 and C15 where the
\* defects they fail on (a collection registered without an index, a
\* poisoned mutex) are out of the way.

Indexed(n) ==
    collections[n].hnsw_l2.tag = "Some" \/ collections[n].hnsw_cosine.tag = "Some"

\* Under SpecConc: no acknowledged upsert is lost, and in a collection that
\* has an index a search with top_k at least the record count returns ids of
\* both workers.
NoLostUpdateIndexed ==
    \A n \in Registered :
        (/\ acked[n][1] # {}
         /\ acked[n][2] # {}
         /\ acked[n][1] \cap acked[n][2] = {}
         /\ WellFormed(n))
            => /\ \A id \in acked[n][1] \cup acked[n][2] :
                    \E i \in DOMAIN RecordsOf(n) : RecordsOf(n)[i].id = id
               /\ Indexed(n) =>
                    \A q \in Queries(n), k \in TopKs :
                        k >= Len(RecordsOf(n)) =>
                            LET r == Collection_search(collections[n], q, k)
                            IN  /\ ~r.panicked
                                /\ ResultIds(r.res) \cap acked[n][1] # {}
                                /\ ResultIds(r.res) \cap acked[n][2] # {}

\* A handler that got the lock answers NotFound for a name that is not
\* registered, and changes nothing.
UnknownNameNotFoundUnderLock ==
    [][\A w \in Workers :
        (/\ Completes(w)
         /\ pc[w] = "cs"
         /\ last'.op \in {"upsert", "search"}
         /\ last'.name \notin Registered)
            => (last'.status = "NotFound" /\ collections' = collections)]_vars

\* The round trip of C9 in the collections that have an index.
RoundTripIndexed ==
    \A n \in Registered :
        LET recs == RecordsOf(n)
            m == Len(recs)
        IN  (/\ m \in TopKs
             /\ Indexed(n)
             /\ WellFormed(n)
             /\ Distinct([i \in DOMAIN recs |-> recs[i].id])
             /\ Distinct([i \in DOMAIN recs |-> recs[i].vector]))
                => \A q \in Queries(n) :
                    LET r == Collection_search(collections[n], q, m)
                    IN  /\ ~r.panicked
                        /\ Len(r.res) = m
                        /\ ResultIds(r.res) = {recs[i].id : i \in DOMAIN recs}
                        /\ NonDecreasing(r.res)

\* C11 short of the poisoning: a search changes no collection, and while the
\* mutex is healthy the answers to searches change only by creates and upserts.
SearchDeterministicWhileHealthy ==
    [][/\ (\E w \in Workers : Completes(w) /\ last'.op = "search")
            => collections' = collections
       /\ (NoWrite /\ ~poisoned') =>
            \A n \in Names, q \in Vectors, k \in TopKs :
                SearchOutcome(poisoned', collections', n, q, k)
                    = SearchOutcome(poisoned, collections, n, q, k)]_vars

\* C12 short of the poisoning: a list call that got the lock is answered with
\* the created names, each once, and the set of names only grows.
ListReturnsCreatedNamesUnderLock ==
    [][/\ \A w \in Workers :
            (Completes(w) /\ pc[w] = "cs" /\ last'.op = "list")
                => /\ last'.status = "Ok"
                   /\ Range(last'.body) = Created
                   /\ Len(last'.body) = Cardinality(Created)
       /\ Created \subseteq Created'
       /\ Registered \subseteq Registered']_vars

\* C13 short of the poisoning: a search that got the lock, on a registered
\* collection that holds no record, is answered 200 with an empty result.
EmptyCollectionSearchUnderLock ==
    [][\A w \in Workers :
        (/\ Completes(w)
         /\ pc[w] = "cs"
         /\ last'.op = "search"
         /\ last'.name \in Registered
         /\ RecordsOf(last'.name) = <<>>)
            => (last'.status = "Ok" /\ last'.body = <<>>)]_vars

\* C15 short of the collections without index: an upsert answered 200
\* appends a record per id and replaces none, and in a collection that has
\* an index it adds an index node per id.
UpsertAppendsIndexed ==
    [][\A w \in Workers :
        (Completes(w) /\ last'.op = "upsert" /\ last'.status = "Ok")
            => LET n == last'.name
                   ids == last'.body
                   old == collections[n]
                   new == collections'[n]
               IN  /\ Len(new.records) = Len(old.records) + Len(ids)
                   /\ SubSeq(new.records, 1, Len(old.records)) = old.records
                   /\ \A id \in Ids :
                        /\ Occurrences(IdsOf(new.records), id)
                            = Occurrences(IdsOf(old.records), id) + Occurrences(ids, id)
                        /\ Indexed(n) =>
                            Occurrences(IndexIds(new), id)
                                = Occurrences(IndexIds(old), id) + Occurrences(ids, id)]_vars

====
